---- MODULE Spec2Model ----
(***************************************************************************)
(* State-machine model of agiloft/client.py (AgiloftClient): the token     *)
(* state, the asyncio authentication lock, ensure_authenticated, the       *)
(* refresh / authenticate calls, _make_request with its 401 handler,       *)
(* logout and authenticate_with_browser.                                   *)
(*                                                                         *)
(* Each task of the event loop is a process p.  asyncio runs a coroutine   *)
(* without interruption between two awaits that really suspend, so one     *)
(* action is the code from one suspension point (a network call in flight, *)
(* a wait for the lock, the poll sleep) up to the next one.                *)
(***************************************************************************)
EXTENDS Integers, Sequences, FiniteSets, TLC

\* ------------------------------------------------------------------ bounds
NumProcs == 2
MaxOps == 3
MaxPast == 1
MaxTok == 2
MaxPolls == 1

Procs == 1..NumProcs

\* ------------------------------------------------------- program constants
\* Python None, for tokens, timestamps, lock holder (client.py 50-54)
None == 0
\* timedelta(minutes=1), in seconds (client.py 85)
SafetyMargin == 60
\* datetime.now() (client.py 81, 155, 205, 399, 484): timestamps are measured
\* from the present instant, and the passing of time (Tick) moves the stored
\* expiry nearer instead of moving the clock
now == 0
\* expires_in default when the response has none (client.py 152, 204, 398, 483)
DefaultExpiresIn == 900

\* agiloft.auth_method (client.py 35): the three values _authenticate knows
\* and 'oauth2', the value example_oauth2.py requires (example_oauth2.py 40-44)
KnownAuthMethods ==
    {"legacy", "oauth2_client_credentials", "oauth2_authorization_code"}
AuthMethods == KnownAuthMethods \cup {"oauth2"}

\* expires_in values the provider may answer with (None: field absent)
ExpiresInInputs == {None, 61}

\* HTTP statuses of resource responses drawn by the model
Statuses == {200, 204, 401, 500}
SuccessStatuses == {200, 201, 202, 204}

VARIABLES
    auth_method,        \* self.auth_method, read once from the configuration
    password,           \* self.password, read once from the configuration
    oauth2_client_secret, \* self.oauth2_client_secret, read once from the configuration
    oauth2_token_endpoint, \* self.oauth2_token_endpoint, read once from the configuration
    posted,             \* the token request posted last: its grant type and its URL
    surfaced,           \* the message of the error raised last, with what it was made from
    config_data,        \* Config._config_data of self.config: the dictionaries by address
    rendered,           \* what the last str(config) returned, with the secrets configured then
    access_token,       \* self.access_token
    refresh_token,      \* self.refresh_token
    token_expires_at,   \* self.token_expires_at, in seconds from the present; None if absent
    api_access_point,   \* self.api_access_point
    auth_lock,          \* self._auth_lock: the task holding it, None if free
    waiters,            \* tasks queued on the lock, in arrival order
    issued,             \* number of token sets the provider has issued
    ops,                \* number of client operations started so far
    pc,                 \* where each task is suspended
    op,                 \* the operation each task is running
    headers_token,      \* bearer token of the task's resource request in flight
    token_before_request, \* the task's snapshot of access_token
    caller_headers,     \* kwargs['headers'] as the caller of the task's call passed them
    sent_headers,       \* caller-supplied headers on the task's resource request in flight
    sent_refresh,       \* refresh_token form field of the task's refresh request
    sent_code,          \* code form field of the task's code exchange request
    grant,              \* what the task's authentication request in flight asks for
    nreq,               \* resource requests the task's call has issued
    result,             \* what the task's operation returned or raised in the last step
    listener,           \* the task whose callback server holds the redirect port, None if unbound
    state,              \* authenticate_with_browser: the generated state parameter
    auth_code,          \* authenticate_with_browser: code of the last callback
    received_state,     \* authenticate_with_browser: state of the last callback
    cb_api_access_point, \* authenticate_with_browser: api_access_point of the last callback
    polls,              \* authenticate_with_browser: sleeps of the wait loop so far
    via,                \* history: what the 401 handler of the call did
    gate_calls,         \* history: auth network calls of the task in its current gate section
    obs,                \* history: the check the last step made (expiry, callback state), if any
    revoked,            \* history: refresh tokens replaced by a rotating refresh
    failed,             \* history: refresh tokens on which a refresh attempt failed
    in_batch,           \* history: call was issued while the held token was in the refresh window
    storm_calls,        \* history: renewal calls issued by the current batch in ensure_authenticated
    storm_excuse        \* history: a renewal of the batch failed, or left the token renewable

tokvars == <<access_token, refresh_token, token_expires_at, api_access_point>>
taskvars == <<pc, op, headers_token, token_before_request, caller_headers, sent_headers,
              sent_refresh, sent_code, grant, nreq, result>>
browservars == <<listener, state, auth_code, received_state, cb_api_access_point, polls>>
histvars == <<via, gate_calls, obs, revoked, failed, in_batch, storm_calls, storm_excuse>>
configvars == <<auth_method, password, oauth2_client_secret, oauth2_token_endpoint, config_data>>
vars == <<configvars, surfaced, rendered, posted, tokvars, auth_lock, waiters, issued, ops, taskvars, browservars, histvars>>

\* ----------------------------------------------------------------- results
NoResult == [kind |-> "none", status |-> None, body |-> None, why |-> "none"]
Ok == [kind |-> "ok", status |-> None, body |-> None, why |-> "none"]
AgiloftAuthError(why) == [kind |-> "AuthError", status |-> None, body |-> None, why |-> why]
AgiloftAPIError(status, body) == [kind |-> "ApiError", status |-> status, body |-> body, why |-> "none"]
RawError(why) == [kind |-> "RawError", status |-> None, body |-> None, why |-> why]

\* the locals of the tasks, the delivered results apart
localvars == <<pc, op, headers_token, token_before_request, caller_headers, sent_headers,
               sent_refresh, sent_code, grant, nreq>>
\* a step of the program other than the end of an operation delivers nothing
NoneReturned == result' = [q \in Procs |-> NoResult]

\* ------------------------------------------------- provider auth responses
\* kind "ok": 200 with an access token; "noat": 200 without access_token;
\* "http": status other than 200; "neterr": the transport raised;
\* "badexp": 200 with an access token and an expires_in that is not a
\* number (a JSON string or null), on which timedelta(seconds=...) raises.
\* A granted token set carries the fresh number n as access token and,
\* if has_rt, as refresh token.
AuthResponses(n) ==
    [kind : {"ok"}, at : {n}, rt : {None, n}, expires_in : ExpiresInInputs]
    \cup [kind : {"noat", "http", "neterr"}, at : {None}, rt : {None}, expires_in : {None}]
    \cup [kind : {"badexp"}, at : {n}, rt : {None}, expires_in : {None}]

\* the provider issued a token set with this response
Grants(r) == r.kind \in {"ok", "badexp"}

\* data.get('expires_in', 900)
ExpiresIn(r) == IF r.expires_in = None THEN DefaultExpiresIn ELSE r.expires_in

\* ------------------------------------------------ the view of one task step
\* The fields one step of task p may change, as a record s the code is
\* applied to; Apply writes it back.
Cur(p) ==
    [at |-> access_token, rt |-> refresh_token, exp |-> token_expires_at,
     ap |-> api_access_point, lock |-> auth_lock, pc |-> pc[p], op |-> op[p],
     res |-> result[p],
     hdr |-> headers_token[p], snap |-> token_before_request[p],
     kw |-> caller_headers[p], xh |-> sent_headers[p],
     sent |-> sent_refresh[p], code |-> sent_code[p], grant |-> grant[p], nreq |-> nreq[p], via |-> via[p],
     calls |-> gate_calls[p]]

\* raise: the operation ends with the error
Raise(s, err) == [s EXCEPT !.pc = "idle", !.res = err]

\* mutant: the lock is released on the exits without an error only
ReleaseOnSuccess(s) ==
    IF s.pc = "idle" /\ s.res.kind # "ok" THEN s ELSE [s EXCEPT !.lock = None]

\* async with self._auth_lock: __aexit__ releases on every exit
Release(s) == [s EXCEPT !.lock = None]

\* mutant: the expiry check without the safety margin
NeedsRenewalNoMargin(at, exp, t) ==
    at = None \/ exp = None \/ t >= exp

\* mutant: the expiry check with a strict comparison
NeedsRenewalStrict(at, exp, t) ==
    at = None \/ exp = None \/ t > exp - SafetyMargin

\* client.py 83-85
NeedsRenewal(at, exp, t) ==
    at = None \/ exp = None \/ t >= exp - SafetyMargin

\* client.py 499-508
HasAuthHeaders(s) == s.at # None

\* mutant: the snapshot is taken before ensure_authenticated has run
SendRequestEarlySnapshot(s) ==
    IF ~HasAuthHeaders(s)
    THEN Raise(s, AgiloftAuthError("no_access_token"))
    ELSE [s EXCEPT !.pc = "req1", !.hdr = s.at, !.xh = s.kw, !.snap = s.snap,
                   !.nreq = 1, !.sent = None, !.grant = "none"]

\* client.py 513-535: auth headers merged with the caller's, snapshot, first
\* resource request
SendRequest(s) ==
    IF ~HasAuthHeaders(s)
    THEN Raise(s, AgiloftAuthError("no_access_token"))
    ELSE [s EXCEPT !.pc = "req1", !.hdr = s.at, !.xh = s.kw, !.snap = s.at,
                   !.nreq = 1, !.sent = None, !.grant = "none"]

\* client.py 558-560: the retried request; kwargs['headers'] is replaced by
\* fresh auth headers, the other arguments are those of the first request
Retry(s) ==
    IF ~HasAuthHeaders(s)
    THEN Raise(s, AgiloftAuthError("no_access_token"))
    ELSE [s EXCEPT !.pc = "req2", !.hdr = s.at, !.xh = None, !.nreq = s.nreq + 1,
                   !.sent = None, !.grant = "none"]

\* what follows the gate section: stage "ea" is ensure_authenticated inside
\* _make_request (512), stage "h" the 401 handler (544)
Continue(stage, s) == IF stage = "ea" THEN SendRequest(s) ELSE Retry(s)

\* client.py 437-454: the refresh request is sent, the task holds the lock
SendRefresh(p, stage, s) ==
    [s EXCEPT !.pc = stage \o "_refresh", !.sent = s.rt, !.lock = p,
              !.grant = "refresh_token", !.calls = s.calls + 1]

\* mutant: authorization-code mode without a refresh token starts the
\* interactive flow
AuthenticateInteractive(p, stage, s) ==
    IF auth_method = "oauth2_client_credentials"
    THEN [s EXCEPT !.pc = stage \o "_auth", !.lock = p, !.calls = s.calls + 1,
                   !.grant = "client_credentials"]
    ELSE IF auth_method = "oauth2_authorization_code"
    THEN IF s.rt # None
         THEN SendRefresh(p, stage \o "_auth", s)
         ELSE Release([s EXCEPT !.pc = "b_wait"])
    ELSE [s EXCEPT !.pc = stage \o "_auth", !.lock = p, !.calls = s.calls + 1,
                   !.grant = "login"]

\* client.py 98-118: _authenticate, up to its network call
Authenticate(p, stage, s) ==
    IF auth_method = "oauth2_client_credentials"
    THEN [s EXCEPT !.pc = stage \o "_auth", !.lock = p, !.calls = s.calls + 1,
                   !.grant = "client_credentials"]
    ELSE IF auth_method = "oauth2_authorization_code"
    THEN IF s.rt # None
         THEN SendRefresh(p, stage \o "_auth", s)
         ELSE Release(Raise(s, AgiloftAuthError("interactive_required")))
    ELSE [s EXCEPT !.pc = stage \o "_auth", !.lock = p, !.calls = s.calls + 1,
                   !.grant = "login"]

\* mutant: a rotated refresh token is not stored
RefreshStoreKeepsOld(s, r, t) ==
    [s EXCEPT !.at = r.at, !.exp = t + ExpiresIn(r)]

\* mutant: the refresh token is overwritten even when the response has none
RefreshStoreOverwrites(s, r, t) ==
    [s EXCEPT !.at = r.at, !.exp = t + ExpiresIn(r), !.rt = r.rt]

\* client.py 471-491: a refresh response with an access token
RefreshStore(s, r, t) ==
    [s EXCEPT !.at = r.at, !.exp = t + ExpiresIn(r),
              !.rt = IF r.rt # None THEN r.rt ELSE s.rt]

\* client.py 456-497: a refresh that raises; the access token of the
\* response is stored (477) before its expires_in is converted (480-481)
RefreshRaised(s, r) ==
    IF r.kind = "badexp" THEN [s EXCEPT !.at = r.at] ELSE s

\* mutant: the refresh token stays held when its refresh failed
AfterRefreshKeepsToken(p, stage, s, r, t) ==
    IF r.kind = "ok"
    THEN Continue(stage, Release(RefreshStore(s, r, t)))
    ELSE Authenticate(p, stage, RefreshRaised(s, r))

\* client.py 88-94 and 548-554: refresh answered
AfterRefresh(p, stage, s, r, t) ==
    IF r.kind = "ok"
    THEN Continue(stage, Release(RefreshStore(s, r, t)))
    ELSE Authenticate(p, stage, [RefreshRaised(s, r) EXCEPT !.rt = None])

\* client.py 104-116: the refresh _authenticate tries itself, answered
AfterInnerRefresh(stage, s, r, t) ==
    IF r.kind = "ok"
    THEN Continue(stage, Release(RefreshStore(s, r, t)))
    ELSE Release(Raise([RefreshRaised(s, r) EXCEPT !.rt = None],
                       AgiloftAuthError("interactive_required")))

\* client.py 134-161: legacy login answered
LegacyStore(s, r, t) ==
    IF r.kind = "http" THEN Raise(s, AgiloftAuthError("auth_failed"))
    ELSE IF r.kind = "neterr" THEN Raise(s, RawError("client_error"))
    ELSE IF r.kind = "badexp"
    THEN Raise([s EXCEPT !.at = r.at, !.rt = r.rt], RawError("type_error"))
    ELSE [s EXCEPT !.at = r.at, !.rt = r.rt, !.exp = t + ExpiresIn(r), !.pc = "stored"]

\* client.py 182-216: client-credentials grant answered
ClientCredentialsStore(s, r, t) ==
    IF r.kind \in {"http", "neterr"} THEN Raise(s, AgiloftAuthError("auth_failed"))
    ELSE IF r.kind = "noat"
    THEN Raise([s EXCEPT !.at = None], AgiloftAuthError("no_access_token_in_response"))
    ELSE IF r.kind = "badexp"
    THEN Raise([s EXCEPT !.at = r.at], AgiloftAuthError("auth_failed"))
    ELSE [s EXCEPT !.at = r.at, !.exp = t + ExpiresIn(r), !.rt = r.rt, !.pc = "stored"]

\* mutant: a failed full authentication is attempted again
AfterAuthenticateAgain(stage, s, r, t) ==
    LET s1 == IF auth_method = "oauth2_client_credentials"
              THEN ClientCredentialsStore(s, r, t)
              ELSE LegacyStore(s, r, t)
    IN  IF s1.pc = "stored" THEN Continue(stage, Release(s1))
        ELSE IF s.calls < 3 THEN [s EXCEPT !.calls = s.calls + 1]
        ELSE Release(s1)

\* client.py 96 and 554-556: _authenticate answered; an aiohttp.ClientError
\* that leaves the 401 handler is caught at 588-591, one that leaves
\* ensure_authenticated (512, before the try) is not
AfterAuthenticate(stage, s, r, t) ==
    LET s1 == IF auth_method = "oauth2_client_credentials"
              THEN ClientCredentialsStore(s, r, t)
              ELSE LegacyStore(s, r, t)
        s2 == IF stage = "h" /\ s1.res.kind = "RawError"
              THEN Raise(s1, AgiloftAPIError(None, None))
              ELSE s1
    IN  IF s2.pc = "stored" THEN Continue(stage, Release(s2)) ELSE Release(s2)

\* client.py 79-96: the body of ensure_authenticated, the lock just taken
EnsureBody(p, s, t) ==
    IF NeedsRenewal(s.at, s.exp, t)
    THEN IF s.rt # None
         THEN SendRefresh(p, "ea", s)
         ELSE Authenticate(p, "ea", s)
    ELSE Continue("ea", Release(s))

\* client.py 545: another request already replaced the token
TokenChanged(live, snapshot) == live # snapshot

\* mutant: the 401 handler tries a refresh whether or not a refresh token is held
HandlerBodyRefreshFirst(p, s) ==
    IF TokenChanged(s.at, s.snap)
    THEN Continue("h", Release([s EXCEPT !.via = "skip"]))
    ELSE SendRefresh(p, "h", [s EXCEPT !.via = "renew"])

\* client.py 544-556: the body of the 401 handler, the lock just taken
HandlerBody(p, s) ==
    IF TokenChanged(s.at, s.snap)
    THEN Continue("h", Release([s EXCEPT !.via = "skip"]))
    ELSE IF s.rt # None
    THEN SendRefresh(p, "h", [s EXCEPT !.via = "renew"])
    ELSE Authenticate(p, "h", [s EXCEPT !.via = "renew"])

\* client.py 704-716: logout swallows what _make_request raised and clears
\* the token state in its finally block
Finally(p, s) ==
    IF s.pc = "idle" /\ s.op = "logout"
    THEN [s EXCEPT !.at = None, !.rt = None, !.exp = None, !.ap = None,
                   !.res = Ok]
    ELSE s

\* mutant: the lock excludes nobody
LockFreeAlways == TRUE

\* asyncio.Lock.acquire: taken at once only if free with nobody queued
LockFree == auth_lock = None /\ waiters = <<>>

\* the locals of a call are gone when it has ended
Ended(s) ==
    IF s.pc = "idle"
    THEN [s EXCEPT !.op = "none", !.hdr = None, !.snap = None, !.kw = None,
                   !.xh = None, !.sent = None, !.code = None,
                   !.grant = "none", !.nreq = 0, !.via = "none", !.calls = 0]
    ELSE s

\* write the step back
Apply(p, s0) ==
    LET s == Ended(Finally(p, s0)) IN
    /\ access_token' = s.at
    /\ refresh_token' = s.rt
    /\ token_expires_at' = s.exp
    /\ api_access_point' = s.ap
    /\ auth_lock' = s.lock
    /\ pc' = [pc EXCEPT ![p] = s.pc]
    /\ op' = [op EXCEPT ![p] = s.op]
    /\ result' = [q \in Procs |-> IF q = p THEN s.res ELSE NoResult]
    /\ headers_token' = [headers_token EXCEPT ![p] = s.hdr]
    /\ token_before_request' = [token_before_request EXCEPT ![p] = s.snap]
    /\ caller_headers' = [caller_headers EXCEPT ![p] = s.kw]
    /\ sent_headers' = [sent_headers EXCEPT ![p] = s.xh]
    /\ sent_refresh' = [sent_refresh EXCEPT ![p] = s.sent]
    /\ sent_code' = [sent_code EXCEPT ![p] = s.code]
    /\ grant' = [grant EXCEPT ![p] = s.grant]
    /\ nreq' = [nreq EXCEPT ![p] = s.nreq]
    /\ via' = [via EXCEPT ![p] = s.via]
    /\ gate_calls' = [gate_calls EXCEPT ![p] = s.calls]


\* ------------------------------------------------------------ history side
EnsurePcs == {"ea_wait", "ea_refresh", "ea_auth", "ea_auth_refresh"}
EnsureFlightPcs == {"ea_refresh", "ea_auth", "ea_auth_refresh"}
RefreshPcs == {"ea_refresh", "h_refresh", "ea_auth_refresh", "h_auth_refresh"}
AuthPcs == {"ea_auth", "h_auth"}

\* the held token is inside its refresh window at time t
InWindow(t) ==
    /\ access_token # None
    /\ token_expires_at # None
    /\ t >= token_expires_at - SafetyMargin

\* the batch is over when none of its calls is in ensure_authenticated; what
\* is recorded about it is read in the state that ends it and dropped after
BatchOver == \A q \in Procs : in_batch[q] => pc[q] \notin EnsurePcs
CurBatch == IF BatchOver THEN [q \in Procs |-> FALSE] ELSE in_batch
CurCalls == IF BatchOver THEN 0 ELSE storm_calls
CurExcuse == IF BatchOver THEN FALSE ELSE storm_excuse
KeepBatch ==
    /\ in_batch' = CurBatch
    /\ storm_calls' = CurCalls
    /\ storm_excuse' = CurExcuse

\* a call issued inside the window joins the batch of the calls now in
\* ensure_authenticated, or opens a new batch if there is none
OpensBatch(p) == InWindow(now) /\ BatchOver

StartBatch(p) ==
    in_batch' = IF OpensBatch(p) THEN [q \in Procs |-> q = p]
                ELSE [CurBatch EXCEPT ![p] = InWindow(now)]

\* what the last step did, for the steps the properties speak about; who
\* is the task that took the step and op the operation it was running:
\*   type "ensure"  who ran the expiry check of ensure_authenticated: held,
\*                  a token with an expiry was held; rem, its remaining
\*                  validity; acted, a renewal was started
\*   type "handler" who ran the 401 handler: held, a live token is present;
\*                  match, it equals the snapshot; old_rt, the refresh token
\*                  held; acted, an auth call was issued; went, the retry
\*                  was sent
\*   type "refresh" who got the answer to its refresh: held, it was a
\*                  success; at, rt, the tokens granted; old_rt, the refresh
\*                  token held before; went, the 401 handler had sent it
\*   type "retry"   who got the answer to its retried request: status
\*   type "verify"  who checked the callback: held, a code was received;
\*                  match, the states were equal; acted, the exchange began;
\*                  went, a callback had been received
\*   type "callback" the callback server of who served a request: held, it
\*                  had served one before; went, the request carried a code
\*   type "cancel"  who was cancelled while waiting for the callback
\*   type "auth"    who got the answer to its login or client-credentials
\*                  grant: held, it was a success; went, the 401 handler had
\*                  sent it; acted, a failed refresh had preceded it
\*   type "response" who got the answer to its first request: status
\*   type "start"   who called authenticate_with_browser
\*   type "logout"  who called logout with no access token held
\*   type "exchange" who got the answer to its code exchange: held, it was
\*                  a success
NoObs ==
    [type |-> "none", who |-> None, op |-> "none", held |-> FALSE, rem |-> None, match |-> FALSE,
     acted |-> FALSE, went |-> FALSE, status |-> None, at |-> None, rt |-> None,
     old_rt |-> None]

\* history of one run of EnsureBody by p: s the state it saw, s1 the outcome
ObserveEnsure(p, s, s1, batched, calls0, excuse0) ==
    /\ obs' = [NoObs EXCEPT
                 !.type = "ensure", !.who = p, !.op = s.op,
                 !.held = s.at # None /\ s.exp # None,
                 !.rem = IF s.exp = None THEN None ELSE s.exp - now,
                 !.acted = s1.calls > 0 \/ s1.res.why = "interactive_required"]
    /\ storm_calls' = IF batched THEN calls0 + s1.calls ELSE calls0
    /\ storm_excuse' =
          \/ excuse0
          \/ /\ batched
             /\ \/ s1.res.why = "interactive_required"
                \/ calls0 = 0 /\ ~NeedsRenewal(s.at, s.exp, now)
                \/ /\ calls0 >= 1
                   /\ NeedsRenewal(s.at, s.exp, now)
                   /\ \A q \in Procs \ {p} : pc[q] \notin EnsureFlightPcs

\* history of an answered renewal call of p in ensure_authenticated
ObserveRenewal(p, s, s1, r) ==
    /\ storm_calls' = IF CurBatch[p] THEN CurCalls + (s1.calls - s.calls)
                      ELSE CurCalls
    /\ storm_excuse' = (CurExcuse \/ (CurBatch[p] /\ r.kind # "ok"))
    /\ in_batch' = CurBatch

\* history of one run of HandlerBody by p
ObserveHandler(p, s, s1) ==
    obs' = [NoObs EXCEPT
              !.type = "handler", !.who = p, !.op = s.op, !.held = s.at # None,
              !.match = s.at = s.snap, !.old_rt = s.rt,
              !.acted = s1.calls > 0, !.went = s1.pc = "req2"]

\* a rotating refresh replaces the refresh token that was presented
Rotate(p, r) ==
    revoked' = IF r.kind = "ok" /\ r.rt # None
               THEN revoked \cup {sent_refresh[p]} ELSE revoked

\* a failed refresh marks the refresh token that was presented
Failed(p, r) ==
    failed' = IF r.kind # "ok" THEN failed \cup {sent_refresh[p]} ELSE failed

\* ---------------------------------------------------------------- actions
\* the fields of a call that starts
Fresh(p) ==
    [Cur(p) EXCEPT !.res = NoResult, !.hdr = None, !.snap = None, !.sent = None, !.code = None,
                   !.grant = "none", !.nreq = 0, !.via = "none", !.calls = 0]

\* client.py 512 and 77-79: the call enters ensure_authenticated
EnterEnsure(p, o, h) ==
    LET s == [Fresh(p) EXCEPT !.op = o, !.kw = h]
        calls0 == IF OpensBatch(p) THEN 0 ELSE CurCalls
        excuse0 == IF OpensBatch(p) THEN FALSE ELSE CurExcuse
    IN  /\ StartBatch(p)
        /\ UNCHANGED <<revoked, failed>>
        /\ IF LockFree
           THEN LET s1 == EnsureBody(p, s, now) IN
                /\ Apply(p, s1)
                /\ waiters' = waiters
                /\ ObserveEnsure(p, s, s1, InWindow(now), calls0, excuse0)
           ELSE /\ Apply(p, [s EXCEPT !.pc = "ea_wait"])
                /\ waiters' = Append(waiters, p)
                /\ storm_calls' = calls0
                /\ storm_excuse' = excuse0
                /\ obs' = NoObs

\* headers= argument of a call: absent, or a header of the caller's
CallerHeaders == {None, 1}

\* tasks are interchangeable: a new operation runs in the lowest idle task
CanStart(p) == pc[p] = "idle" /\ \A q \in Procs : q < p => pc[q] # "idle"

\* client.py 510-512: a task calls _make_request
Execute(p, h) ==
    /\ CanStart(p)
    /\ ops < MaxOps
    /\ ops' = ops + 1
    /\ EnterEnsure(p, "execute", h)
    /\ UNCHANGED <<configvars, surfaced, rendered, posted, issued, browservars>>

\* client.py 704-708: logout with an access token held posts /logout
\* through _make_request; without one it returns at once and clears nothing
Logout(p) ==
    /\ CanStart(p)
    /\ ops < MaxOps
    /\ ops' = ops + 1
    /\ IF access_token # None
       THEN EnterEnsure(p, "logout", None)
       ELSE /\ Apply(p, [Fresh(p) EXCEPT !.res = Ok])
            /\ obs' = [NoObs EXCEPT !.type = "logout", !.who = p, !.op = "logout"]
            /\ KeepBatch
            /\ UNCHANGED <<waiters, revoked, failed>>
    /\ UNCHANGED <<configvars, surfaced, rendered, posted, issued, browservars>>

\* client.py 79: the queued task gets the lock in ensure_authenticated
EnsureAcquire(p) ==
    /\ pc[p] = "ea_wait"
    /\ auth_lock = None
    /\ waiters # <<>> /\ Head(waiters) = p
    /\ waiters' = Tail(waiters)
    /\ LET s == Cur(p)
           s1 == EnsureBody(p, s, now)
       IN  /\ Apply(p, s1)
           /\ ObserveEnsure(p, s, s1, CurBatch[p], CurCalls, CurExcuse)
    /\ in_batch' = CurBatch
    /\ UNCHANGED <<configvars, surfaced, rendered, posted, issued, ops, revoked, failed, browservars>>

\* client.py 450-497: the provider answers a refresh request
RefreshResponse(p, r) ==
    /\ pc[p] \in RefreshPcs
    /\ Grants(r) => issued < MaxTok
    /\ issued' = IF Grants(r) THEN issued + 1 ELSE issued
    /\ LET s == Cur(p)
           stage == IF pc[p] \in EnsurePcs THEN "ea" ELSE "h"
           s1 == IF pc[p] \in {"ea_refresh", "h_refresh"}
                 THEN AfterRefresh(p, stage, s, r, now)
                 ELSE AfterInnerRefresh(stage, s, r, now)
       IN  /\ Apply(p, s1)
           /\ IF stage = "ea" THEN ObserveRenewal(p, s, s1, r)
              ELSE KeepBatch
           /\ obs' = [NoObs EXCEPT
                        !.type = "refresh", !.who = p, !.op = s.op,
                        !.held = r.kind = "ok",
                        !.at = r.at, !.rt = r.rt, !.old_rt = s.rt,
                        !.went = stage = "h"]
    /\ Rotate(p, r)
    /\ Failed(p, r)
    /\ UNCHANGED <<configvars, surfaced, rendered, posted, ops, waiters, browservars>>

\* client.py 135-161 and 183-216: the provider answers a login or a
\* client-credentials grant
AuthenticateResponse(p, r) ==
    /\ pc[p] \in AuthPcs
    /\ Grants(r) => issued < MaxTok
    /\ issued' = IF Grants(r) THEN issued + 1 ELSE issued
    /\ LET s == Cur(p)
           stage == IF pc[p] = "ea_auth" THEN "ea" ELSE "h"
           s1 == AfterAuthenticate(stage, s, r, now)
       IN  /\ Apply(p, s1)
           /\ IF stage = "ea" THEN ObserveRenewal(p, s, s1, r)
              ELSE KeepBatch
           /\ obs' = [NoObs EXCEPT
                        !.type = "auth", !.who = p, !.op = s.op,
                        !.held = r.kind = "ok", !.went = stage = "h",
                        !.acted = s.calls > 1]
    /\ UNCHANGED <<configvars, surfaced, rendered, posted, ops, waiters, revoked, failed, browservars>>


\* responses to a resource request: an HTTP status, or aiohttp.ClientError
ResourceResponses ==
    [kind : {"http"}, status : Statuses] \cup [kind : {"neterr"}, status : {None}]

\* mutant: a 401 is answered by another attempt, also on the retry
OutcomeRetrying(s, r) ==
    IF r.kind = "neterr" THEN Raise(s, AgiloftAPIError(None, None))
    ELSE IF r.status = 401 THEN [s EXCEPT !.pc = "req2", !.nreq = s.nreq + 1]
    ELSE IF r.status \notin SuccessStatuses
    THEN Raise(s, AgiloftAPIError(r.status, s.nreq))
    ELSE [s EXCEPT !.pc = "idle", !.res = Ok]

\* client.py 535-591 without the 401 branch: the call ends on this response;
\* the raw body of the k-th response of a call is written k
Outcome(s, r) ==
    IF r.kind = "neterr" THEN Raise(s, AgiloftAPIError(None, None))
    ELSE IF r.status \notin SuccessStatuses
    THEN Raise(s, AgiloftAPIError(r.status, s.nreq))
    ELSE [s EXCEPT !.pc = "idle", !.res = Ok]

\* client.py 535-544 and 575-586: the first resource request is answered
Response(p, r) ==
    /\ pc[p] = "req1"
    /\ LET s == [Cur(p) EXCEPT !.calls = 0] IN
       IF r.kind = "http" /\ r.status = 401
       THEN IF LockFree
            THEN /\ Apply(p, HandlerBody(p, s))
                 /\ ObserveHandler(p, s, HandlerBody(p, s))
                 /\ waiters' = waiters
            ELSE /\ Apply(p, [s EXCEPT !.pc = "h_wait"])
                 /\ obs' = NoObs
                 /\ waiters' = Append(waiters, p)
       ELSE /\ Apply(p, Outcome(s, r))
            /\ obs' = [NoObs EXCEPT !.type = "response", !.who = p, !.op = s.op,
                                    !.status = r.status]
            /\ waiters' = waiters
    /\ UNCHANGED <<configvars, surfaced, rendered, posted, issued, ops, browservars>>
    /\ KeepBatch
    /\ UNCHANGED <<revoked, failed>>

\* client.py 544: the queued task gets the lock in the 401 handler
HandlerAcquire(p) ==
    /\ pc[p] = "h_wait"
    /\ auth_lock = None
    /\ waiters # <<>> /\ Head(waiters) = p
    /\ waiters' = Tail(waiters)
    /\ Apply(p, HandlerBody(p, Cur(p)))
    /\ ObserveHandler(p, Cur(p), HandlerBody(p, Cur(p)))
    /\ UNCHANGED <<configvars, surfaced, rendered, posted, issued, ops, browservars>>
    /\ KeepBatch
    /\ UNCHANGED <<revoked, failed>>

\* client.py 560-573: the retried request is answered
RetryResponse(p, r) ==
    /\ pc[p] = "req2"
    /\ Apply(p, Outcome(Cur(p), r))
    /\ UNCHANGED <<configvars, surfaced, rendered, posted, issued, ops, waiters, browservars>>
    /\ obs' = [NoObs EXCEPT !.type = "retry", !.who = p, !.op = op[p],
                            !.status = r.status]
    /\ KeepBatch
    /\ UNCHANGED <<revoked, failed>>

\* state values a callback may carry
Nonces == {1, 2}

\* secrets.token_urlsafe(32) (client.py 237): the values are interchangeable,
\* the generated one is written 1
Generated == {1}

\* the code the provider hands out in the redirect that carries state n:
\* codes are told apart by the request they came in
CodeOf(n) == n

\* the query parameters of a callback request (client.py 266-269): one with
\* a code, or one without (an error redirect, or no code at all), of which
\* the flow reads nothing but that it came
Callbacks ==
    {[code |-> CodeOf(n), state |-> n, api_access_point |-> a] :
        n \in Nonces, a \in {None, 1}}
    \cup [code : {None}, state : Generated, api_access_point : {None}]

\* mutant: the code of an earlier callback is kept when another arrives
StoreCallbackKeepsCode(old, cb) ==
    [code |-> IF old.code # None THEN old.code ELSE cb.code,
     state |-> cb.state, api_access_point |-> cb.api_access_point]

\* client.py 266-269: the three nonlocals are assigned from one request
StoreCallback(old, cb) ==
    [code |-> cb.code, state |-> cb.state, api_access_point |-> cb.api_access_point]

\* mutant: the state parameter is not compared
StateMatchesAny(received, generated) == TRUE

\* client.py 326
StateMatches(received, generated) == received = generated

\* client.py 335-370: _exchange_code_for_token up to its network call, which
\* is made without the lock
ExchangeCodeForToken(s, code, hint) ==
    [s EXCEPT !.ap = IF hint # None THEN hint ELSE s.ap, !.pc = "b_exchange",
              !.code = code, !.grant = "authorization_code"]

\* mutant: the absence of a code is not told from a wrong state
VerifyStateOnly(s, code, received, generated, hint) ==
    IF code = None \/ ~StateMatches(received, generated)
    THEN Raise(s, AgiloftAuthError("state_mismatch"))
    ELSE ExchangeCodeForToken(s, code, hint)

\* client.py 322-331: what follows the teardown of the callback server
Verify(s, code, received, generated, hint) ==
    IF code = None THEN Raise(s, AgiloftAuthError("timeout"))
    ELSE IF ~StateMatches(received, generated)
    THEN Raise(s, AgiloftAuthError("state_mismatch"))
    ELSE ExchangeCodeForToken(s, code, hint)

\* client.py 372-410: the token endpoint answers the code exchange
ExchangeStore(s, r, t) ==
    IF r.kind \in {"http", "neterr"} THEN Raise(s, AgiloftAuthError("exchange_failed"))
    ELSE IF r.kind = "noat"
    THEN Raise([s EXCEPT !.at = None], AgiloftAuthError("no_access_token_in_response"))
    ELSE IF r.kind = "badexp"
    THEN Raise([s EXCEPT !.at = r.at], AgiloftAuthError("exchange_failed"))
    ELSE [s EXCEPT !.at = r.at, !.exp = t + ExpiresIn(r), !.rt = r.rt,
                   !.pc = "idle", !.res = Ok]

\* client.py 218-317: authenticate_with_browser generates the state, binds
\* the callback server, opens the browser and starts to wait; binding fails
\* while another callback server holds the port
AuthenticateWithBrowser(p, n) ==
    /\ CanStart(p)
    /\ ops < MaxOps
    /\ auth_method = "oauth2_authorization_code"
    /\ ops' = ops + 1
    /\ IF listener # None
       THEN /\ Apply(p, Raise([Fresh(p) EXCEPT !.op = "browser"], RawError("address_in_use")))
            /\ UNCHANGED browservars
       ELSE /\ Apply(p, [Fresh(p) EXCEPT !.op = "browser", !.pc = "b_wait"])
            /\ listener' = p
            /\ state' = n
            /\ auth_code' = None
            /\ received_state' = None
            /\ cb_api_access_point' = None
            /\ polls' = 0
    /\ in_batch' = [CurBatch EXCEPT ![p] = FALSE]
    /\ storm_calls' = CurCalls
    /\ storm_excuse' = CurExcuse
    /\ obs' = [NoObs EXCEPT !.type = "start", !.who = p, !.op = "browser"]
    /\ UNCHANGED <<configvars, surfaced, rendered, posted, issued, waiters, revoked, failed>>

\* client.py 262-291: handle_callback serves a request on the redirect path
HandleCallback(cb) ==
    /\ listener # None
    /\ pc[listener] = "b_wait"
    /\ LET old == [code |-> auth_code, state |-> received_state,
                   api_access_point |-> cb_api_access_point]
           new == StoreCallback(old, cb)
       IN  /\ auth_code' = new.code
           /\ received_state' = new.state
           /\ cb_api_access_point' = new.api_access_point
    /\ obs' = [NoObs EXCEPT !.type = "callback", !.who = listener, !.op = "browser",
                            !.held = received_state # None, !.went = cb.code # None]
    /\ NoneReturned
    /\ UNCHANGED <<configvars, surfaced, rendered, posted, tokvars, auth_lock, waiters, issued, ops, localvars>>
    /\ UNCHANGED <<listener, state, polls>>
    /\ KeepBatch
    /\ UNCHANGED <<via, gate_calls, revoked, failed>>

\* client.py 316-317: the wait loop wakes from its sleep; MaxPolls sleeps
\* make the 300 seconds of the timeout
WaitLoop(p) ==
    /\ pc[p] = "b_wait"
    /\ IF auth_code = None /\ polls < MaxPolls
       THEN polls' = polls + 1 /\ pc' = pc
       ELSE polls' = polls /\ pc' = [pc EXCEPT ![p] = "b_cleanup"]
    /\ obs' = NoObs
    /\ UNCHANGED <<configvars, surfaced, rendered, posted, tokvars, auth_lock, waiters, issued, ops>>
    /\ NoneReturned
    /\ UNCHANGED <<op, headers_token, token_before_request, caller_headers, sent_headers>>
    /\ UNCHANGED <<sent_refresh, sent_code, grant, nreq>>
    /\ UNCHANGED <<listener, state, auth_code, received_state, cb_api_access_point>>
    /\ KeepBatch
    /\ UNCHANGED <<via, gate_calls, revoked, failed>>

\* client.py 316-317: the waiting task is cancelled in its sleep (or the
\* sleep raises); no try/finally surrounds the wait, so runner.cleanup() at
\* 320 is never reached and the callback server keeps the port
Cancel(p) ==
    /\ pc[p] = "b_wait"
    /\ Apply(p, Raise(Cur(p), RawError("cancelled")))
    /\ obs' = [NoObs EXCEPT !.type = "cancel", !.who = p, !.op = "browser"]
    /\ UNCHANGED <<configvars, surfaced, rendered, posted, issued, ops, waiters, browservars>>
    /\ KeepBatch
    /\ UNCHANGED <<revoked, failed>>

\* client.py 320-331: the callback server is stopped, the callback checked
\* and the code exchange started
Cleanup(p) ==
    /\ pc[p] = "b_cleanup"
    /\ LET s1 == Verify(Cur(p), auth_code, received_state, state, cb_api_access_point) IN
       /\ Apply(p, s1)
       /\ obs' = [NoObs EXCEPT
                    !.type = "verify", !.who = p, !.op = "browser",
                    !.held = auth_code # None,
                    !.match = received_state = state,
                    !.acted = s1.pc = "b_exchange",
                    !.went = received_state # None]
    /\ listener' = None
    /\ state' = None
    /\ auth_code' = None
    /\ received_state' = None
    /\ cb_api_access_point' = None
    /\ polls' = 0
    /\ UNCHANGED <<configvars, surfaced, rendered, posted, issued, ops, waiters>>
    /\ KeepBatch
    /\ UNCHANGED <<revoked, failed>>

\* client.py 366-410: the token endpoint answers the code exchange
ExchangeResponse(p, r) ==
    /\ pc[p] = "b_exchange"
    /\ Grants(r) => issued < MaxTok
    /\ issued' = IF Grants(r) THEN issued + 1 ELSE issued
    /\ Apply(p, ExchangeStore(Cur(p), r, now))
    /\ obs' = [NoObs EXCEPT !.type = "exchange", !.who = p, !.op = "browser",
                            !.held = r.kind = "ok"]
    /\ UNCHANGED <<configvars, surfaced, rendered, posted, ops, waiters, browservars>>
    /\ KeepBatch
    /\ UNCHANGED <<revoked, failed>>

\* remaining validities the passing of time is followed to: from one second
\* above the safety margin to MaxPast seconds below it
Horizons == (SafetyMargin - MaxPast)..(SafetyMargin + 1)

\* time passes until e seconds of validity remain
Tick(e) ==
    /\ token_expires_at # None
    /\ e < token_expires_at
    /\ token_expires_at' = e
    /\ obs' = NoObs
    /\ UNCHANGED <<configvars, surfaced, rendered, posted, access_token, refresh_token, api_access_point>>
    /\ NoneReturned
    /\ UNCHANGED <<auth_lock, waiters, issued, ops, localvars, browservars>>
    /\ KeepBatch
    /\ UNCHANGED <<via, gate_calls, revoked, failed>>

\* -------------------------------------------------------- configuration
\* config.py 24-171.  _config_data is a dictionary of dictionaries; the
\* dictionaries live at addresses, and an entry holds a scalar or the
\* address of a nested dictionary.
Scalar(x) == [kind |-> "val", val |-> x, ref |-> "none"]
Nested(a) == [kind |-> "ref", val |-> None, ref |-> a]

\* The secrets a configuration may hold.
Secrets == {1, 2}

\* '***masked***' (config.py 170)
Masked == 3

\* the values a configuration file may give a secret; None: entry absent
ConfigValues == Secrets \cup {None}

\* config.py 32-64: the loaded configuration.  The 'agiloft' section and its
\* password entry always exist (defaults, 56-64); the 'oauth2' section and
\* its client_secret come from the file only.
Loaded(pw, secret) ==
    [data |-> [agiloft |-> Nested("agiloft")],
     agiloft |-> IF secret = None
                 THEN [password |-> Scalar(pw)]
                 ELSE [password |-> Scalar(pw), oauth2 |-> Nested("oauth2")],
     oauth2 |-> IF secret = None
                THEN << >>
                ELSE [client_secret |-> Scalar(secret)]]

\* config.py 117-127: get, by a path of keys from the dictionary at a
RECURSIVE Get(_, _, _, _)
Get(heap, a, path, default) ==
    IF path = << >> THEN default
    ELSE IF Head(path) \notin DOMAIN heap[a] THEN default
    ELSE LET e == heap[a][Head(path)] IN
         IF Len(path) = 1
         THEN IF e.kind = "val" THEN e.val ELSE default
         ELSE IF e.kind = "ref" THEN Get(heap, e.ref, Tail(path), default)
         ELSE default

\* config.py 129-139: set, the sections of the path existing
SetNested(heap, section, key, value) ==
    [heap EXCEPT ![section] =
        [k \in DOMAIN heap[section] \cup {key} |->
            IF k = key THEN Scalar(value) ELSE heap[section][k]]]

\* config.py 162-164: dict.copy() makes a new top-level dictionary whose
\* entries are those of _config_data: the nested dictionaries are shared
ToDict(heap) ==
    [a \in DOMAIN heap \cup {"copy"} |-> IF a = "copy" THEN heap["data"] ELSE heap[a]]

\* config.py 169-170: the password entry of safe_config['agiloft'] is
\* overwritten, if there is one
Mask(heap) ==
    IF /\ "agiloft" \in DOMAIN heap["copy"]
       /\ heap["copy"]["agiloft"].kind = "ref"
       /\ "password" \in DOMAIN heap[heap["copy"]["agiloft"].ref]
    THEN SetNested(heap, heap["copy"]["agiloft"].ref, "password", Masked)
    ELSE heap

\* config.py 171: json.dumps writes every entry out, the nested dictionaries
\* in place: the text is its set of leaves, each a path of keys and a value
RECURSIVE Dumps(_, _, _)
Dumps(heap, a, prefix) ==
    UNION {LET e == heap[a][k] IN
           IF e.kind = "val" THEN {[path |-> Append(prefix, k), val |-> e.val]}
           ELSE Dumps(heap, e.ref, Append(prefix, k)) : k \in DOMAIN heap[a]}

\* a value occurs in the text
Contains(text, x) == \E leaf \in text : leaf.val = x

\* the heap without the temporary of __str__
Drop(heap) == [a \in DOMAIN heap \ {"copy"} |-> heap[a]]

NotRendered == [text |-> {}, password |-> None, client_secret |-> None, called |-> FALSE]

\* config.py 166-171: str(config)
Str ==
    /\ LET h == Mask(ToDict(config_data)) IN
       /\ rendered' = [text |-> Dumps(h, "copy", << >>),
                       password |-> Get(config_data, "data", <<"agiloft", "password">>, None),
                       client_secret |-> Get(config_data, "data", <<"agiloft", "oauth2", "client_secret">>, None),
                       called |-> TRUE]
       /\ config_data' = Drop(h)
    /\ UNCHANGED <<auth_method, password, oauth2_client_secret, oauth2_token_endpoint, surfaced, posted>>
    /\ UNCHANGED <<tokvars, auth_lock, waiters, issued, ops, taskvars, browservars, histvars>>

\* config.py 129-139: config.set('agiloft.password', value)
SetPassword(value) ==
    /\ config_data' = SetNested(config_data, "agiloft", "password", value)
    /\ UNCHANGED <<auth_method, password, oauth2_client_secret, oauth2_token_endpoint, surfaced, rendered, posted>>
    /\ UNCHANGED <<tokvars, auth_lock, waiters, issued, ops, taskvars, browservars, histvars>>

\* client.py 28-47: the client reads its settings from the configuration
Construct(cfg) ==
    /\ config_data = cfg
    /\ password = Get(cfg, "data", <<"agiloft", "password">>, None)
    /\ oauth2_client_secret = Get(cfg, "data", <<"agiloft", "oauth2", "client_secret">>, None)

\* ------------------------------------------------------- error messages
\* What the provider answers with (status, body text) and what a failed
\* transport reports (the text of the exception).
MessageStatuses == {401, 500}
MessageTexts == {1, 2}
ProviderReplies == [status : MessageStatuses, text : MessageTexts, exc : MessageTexts]

\* The places of client.py that build an error message.
LegacySites == {"legacy_http", "legacy_rejected", "legacy_raised"}
ClientCredentialsSites == {"cc_http", "cc_no_token", "cc_raised"}
ExchangeSites == {"exchange_http", "exchange_not_json", "exchange_no_token", "exchange_raised"}
RefreshSites == {"refresh_http", "refresh_not_json", "refresh_no_token", "refresh_raised"}
RequestSites == {"request_failed", "retry_failed", "client_error"}
MessageSites == LegacySites \cup ClientCredentialsSites \cup ExchangeSites \cup RefreshSites \cup RequestSites
StatusSites == {"legacy_http", "cc_http", "exchange_http", "refresh_http", "request_failed", "retry_failed"}
RaisedSites == {"legacy_raised", "cc_raised", "exchange_raised", "refresh_raised", "client_error"}

\* The local variables in scope where the message of a site is built: the
\* request data (login_data carries the password, the client-credentials
\* token_data carries the client secret, the exchange and refresh token_data
\* carry neither) and what came back.
Locals(site, pw, secret, reply) ==
    [login_data |-> IF site \in LegacySites THEN pw ELSE None,
     token_data |-> IF site \in ClientCredentialsSites THEN secret ELSE None,
     status |-> reply.status,
     text |-> reply.text,
     exc |-> reply.exc]

\* A variant that appends the request data to the message.
ErrorMessageWithRequest(site, l) ==
    [site |-> site,
     status |-> IF site \in StatusSites THEN l.status ELSE None,
     text |-> IF site \in RaisedSites THEN l.exc ELSE l.text,
     request |-> <<l.login_data, l.token_data>>]

\* The f-string of a site: its fixed words, the response status where the
\* site prints it, and the response text (data) or str(e).
ErrorMessage(site, l) ==
    [site |-> site,
     status |-> IF site \in StatusSites THEN l.status ELSE None,
     text |-> IF site \in RaisedSites THEN l.exc ELSE l.text,
     request |-> None]

NoMessage == [site |-> "none", reply |-> None, message |-> None]

\* One failure: the provider's reply reaches a site, which raises its message.
SurfaceError(site, reply) ==
    /\ surfaced' = [site |-> site, reply |-> reply,
                    message |-> ErrorMessage(site, Locals(site, password, oauth2_client_secret, reply))]
    /\ UNCHANGED <<configvars, rendered, posted, tokvars, auth_lock, waiters, issued, ops, taskvars, browservars, histvars>>

\* ------------------------------------------------------- token endpoint
\* The URL of a token request: the configured token endpoint, or
\* '/ewws/otoken' under an access point, or under the base API URL cut at
\* '/ewws/alrest'.
ConfiguredUrl(endpoint) == [root |-> "token_endpoint", at |-> endpoint]
AccessPointUrl(ap) == [root |-> "api_access_point", at |-> ap]
BaseUrl == [root |-> "base_url", at |-> None]

\* values of agiloft.oauth2.token_endpoint (None: not configured) and of the
\* api_access_point parameter of a callback (None: absent or empty)
TokenEndpoints == {None, 1, 2}
AccessPoints == {None, 1, 2}

\* client.py 426-433: where _refresh_access_token posts
RefreshTokenUrl(endpoint, ap) ==
    IF endpoint # None THEN ConfiguredUrl(endpoint)
    ELSE IF ap # None THEN AccessPointUrl(ap)
    ELSE BaseUrl

\* client.py 343-349: where _exchange_code_for_token posts
ExchangeTokenUrl(endpoint, hint) ==
    IF hint # None THEN AccessPointUrl(hint) ELSE BaseUrl

\* client.py 183-184: where _authenticate_oauth2_client_credentials posts
ClientCredentialsTokenUrl(endpoint) == ConfiguredUrl(endpoint)

NotPosted == [grant |-> "none", url |-> BaseUrl, learned |-> None]

\* client.py 412-454: a refresh request is posted
PostRefresh ==
    /\ posted' = [grant |-> "refresh_token",
                  url |-> RefreshTokenUrl(oauth2_token_endpoint, api_access_point),
                  learned |-> api_access_point]
    /\ UNCHANGED <<configvars, surfaced, rendered, tokvars, auth_lock, waiters, issued, ops>>
    /\ UNCHANGED <<taskvars, browservars, histvars>>

\* client.py 335-370: a code exchange is posted; the access point of the
\* callback, if it has one, is kept for the refreshes to come
PostExchange(hint) ==
    /\ api_access_point' = IF hint # None THEN hint ELSE api_access_point
    /\ posted' = [grant |-> "authorization_code",
                  url |-> ExchangeTokenUrl(oauth2_token_endpoint, hint),
                  learned |-> api_access_point']
    /\ UNCHANGED <<configvars, surfaced, rendered, auth_lock, waiters, issued, ops>>
    /\ UNCHANGED <<access_token, refresh_token, token_expires_at>>
    /\ UNCHANGED <<taskvars, browservars, histvars>>

\* client.py 163-188: a client-credentials grant is posted
PostClientCredentials ==
    /\ posted' = [grant |-> "client_credentials",
                  url |-> ClientCredentialsTokenUrl(oauth2_token_endpoint),
                  learned |-> api_access_point]
    /\ UNCHANGED <<configvars, surfaced, rendered, tokvars, auth_lock, waiters, issued, ops>>
    /\ UNCHANGED <<taskvars, browservars, histvars>>

\* client.py 28-55: the client as constructed, but for its configuration
InitClient ==
    /\ auth_method \in AuthMethods
    /\ surfaced = NoMessage
    /\ rendered = NotRendered
    /\ posted = NotPosted
    /\ access_token = None
    /\ refresh_token = None
    /\ token_expires_at = None
    /\ api_access_point = None
    /\ auth_lock = None
    /\ waiters = <<>>
    /\ issued = 0
    /\ ops = 0
    /\ pc = [p \in Procs |-> "idle"]
    /\ op = [p \in Procs |-> "none"]
    /\ headers_token = [p \in Procs |-> None]
    /\ token_before_request = [p \in Procs |-> None]
    /\ caller_headers = [p \in Procs |-> None]
    /\ sent_headers = [p \in Procs |-> None]
    /\ sent_refresh = [p \in Procs |-> None]
    /\ sent_code = [p \in Procs |-> None]
    /\ grant = [p \in Procs |-> "none"]
    /\ nreq = [p \in Procs |-> 0]
    /\ result = [p \in Procs |-> NoResult]
    /\ via = [p \in Procs |-> "none"]
    /\ gate_calls = [p \in Procs |-> 0]
    /\ obs = NoObs
    /\ revoked = {}
    /\ failed = {}
    /\ in_batch = [p \in Procs |-> FALSE]
    /\ storm_calls = 0
    /\ storm_excuse = FALSE
    /\ listener = None
    /\ state = None
    /\ auth_code = None
    /\ received_state = None
    /\ cb_api_access_point = None
    /\ polls = 0

\* The flows only pass the secrets on, so one value stands for all of them.
Configured ==
    /\ InitClient
    /\ Construct(Loaded(1, 1))
    /\ oauth2_token_endpoint = 1

\* The client in one of the modes _authenticate names; a mode it does not
\* name is run by OAuth2Spec.
Init ==
    /\ Configured
    /\ auth_method \in KnownAuthMethods

\* The client under any secrets, failing at any site on any reply.
MessageInit ==
    /\ InitClient
    /\ \E pw \in Secrets : \E secret \in Secrets : Construct(Loaded(pw, secret))
    /\ oauth2_token_endpoint = 1

MessageNext ==
    \E site \in MessageSites : \E reply \in ProviderReplies : SurfaceError(site, reply)

MessageSpec == MessageInit /\ [][MessageNext]_vars

\* The client built from any configuration, which is then printed and set.
ConfigInit ==
    /\ InitClient
    /\ \E pw \in Secrets : \E secret \in ConfigValues : Construct(Loaded(pw, secret))
    /\ oauth2_token_endpoint = 1

ConfigNext ==
    \/ Str
    \/ \E value \in Secrets : SetPassword(value)

ConfigSpec == ConfigInit /\ [][ConfigNext]_vars

\* The client with or without a configured token endpoint, posting token
\* requests of the three grant types.
EndpointInit ==
    /\ InitClient
    /\ Construct(Loaded(1, 1))
    /\ oauth2_token_endpoint \in TokenEndpoints

EndpointNext ==
    \/ PostRefresh
    \/ \E hint \in AccessPoints : PostExchange(hint)
    \/ PostClientCredentials

EndpointSpec == EndpointInit /\ [][EndpointNext]_vars

\* the calls of the client as the repository makes them: none passes headers
Next ==
    \/ \E p \in Procs : Execute(p, None)
    \/ \E p \in Procs : Logout(p)
    \/ \E p \in Procs : EnsureAcquire(p)
    \/ \E p \in Procs : \E r \in AuthResponses(issued + 1) : RefreshResponse(p, r)
    \/ \E p \in Procs : \E r \in AuthResponses(issued + 1) : AuthenticateResponse(p, r)
    \/ \E p \in Procs : \E r \in ResourceResponses : Response(p, r)
    \/ \E p \in Procs : HandlerAcquire(p)
    \/ \E p \in Procs : \E r \in ResourceResponses : RetryResponse(p, r)
    \/ \E p \in Procs : \E n \in Generated : AuthenticateWithBrowser(p, n)
    \/ \E cb \in Callbacks : HandleCallback(cb)
    \/ \E p \in Procs : WaitLoop(p)
    \/ \E p \in Procs : Cancel(p)
    \/ \E p \in Procs : Cleanup(p)
    \/ \E p \in Procs : \E r \in AuthResponses(issued + 1) : ExchangeResponse(p, r)
    \/ \E e \in Horizons : Tick(e)

Spec == Init /\ [][Next]_vars

\* the event loop runs every task that is ready: the sleep of the wait loop
\* returns, and what follows the loop runs; the flow is run in
\* authorization-code mode, the client-credentials mode is kept beside it
\* The client constructed in one of the two OAuth2 modes.
FairInit ==
    /\ Init
    /\ auth_method \in {"oauth2_authorization_code", "oauth2_client_credentials"}

FairSpec ==
    /\ FairInit
    /\ [][Next]_vars
    /\ \A p \in Procs : WF_vars(WaitLoop(p))
    /\ \A p \in Procs : WF_vars(Cleanup(p))

\* The lock under fair scheduling: a task that can take the lock does.
\* The client is in legacy mode, where authenticate_with_browser is not
\* used: the steps are those of _make_request and logout.
LockInit ==
    /\ Init
    /\ auth_method = "legacy"

\* the answers to a refresh or a login that differ for the lock: every way
\* to fail, and the token sets that expire soon
LockResponses(n) == {r \in AuthResponses(n) : r.kind = "ok" => r.expires_in # None}

RequestNext ==
    \/ \E p \in Procs : Execute(p, None)
    \/ \E p \in Procs : Logout(p)
    \/ \E p \in Procs : EnsureAcquire(p)
    \/ \E p \in Procs : \E r \in LockResponses(issued + 1) : RefreshResponse(p, r)
    \/ \E p \in Procs : \E r \in LockResponses(issued + 1) : AuthenticateResponse(p, r)
    \/ \E p \in Procs : \E r \in ResourceResponses : Response(p, r)
    \/ \E p \in Procs : HandlerAcquire(p)
    \/ \E p \in Procs : \E r \in ResourceResponses : RetryResponse(p, r)
    \/ \E e \in Horizons : Tick(e)

\* The client making requests whose caller may pass headers of its own
\* (kwargs['headers'], client.py 516-519).
HeadersNext ==
    \/ \E p \in Procs : \E h \in CallerHeaders : Execute(p, h)
    \/ \E p \in Procs : Logout(p)
    \/ \E p \in Procs : EnsureAcquire(p)
    \/ \E p \in Procs : \E r \in LockResponses(issued + 1) : RefreshResponse(p, r)
    \/ \E p \in Procs : \E r \in LockResponses(issued + 1) : AuthenticateResponse(p, r)
    \/ \E p \in Procs : \E r \in ResourceResponses : Response(p, r)
    \/ \E p \in Procs : HandlerAcquire(p)
    \/ \E p \in Procs : \E r \in ResourceResponses : RetryResponse(p, r)
    \/ \E e \in Horizons : Tick(e)

HeadersSpec == LockInit /\ [][HeadersNext]_vars

\* The client configured with auth_method 'oauth2', as example_oauth2.py
\* requires it, making requests.
OAuth2Init ==
    /\ Configured
    /\ auth_method = "oauth2"

OAuth2Spec == OAuth2Init /\ [][RequestNext]_vars

LockSpec ==
    /\ LockInit
    /\ [][RequestNext]_vars
    /\ \A p \in Procs : WF_vars(EnsureAcquire(p))
    /\ \A p \in Procs : WF_vars(HandlerAcquire(p))


\* ------------------------------------------------------------------ claims
AuthFlightPcs == RefreshPcs \cup AuthPcs \cup {"b_exchange"}

\* C1: at most one authentication, refresh or token-exchange network call is
\* in flight at any time.
C1_AtMostOneAuthCallInFlight ==
    Cardinality({p \in Procs : pc[p] \in AuthFlightPcs}) <= 1

\* every call of the current batch has left ensure_authenticated
BatchDone == BatchOver /\ \E p \in Procs : in_batch[p]

C3_ChangedTokenSkipsAndRetries ==
    (obs.type = "handler" /\ ~obs.match) => (~obs.acted /\ obs.went)

\* C4: a call issues at most two resource requests, the second only after
\* the 401 handler ran; a status outside the success set on the retry ends
\* the call with ApiError carrying that status and the body of the retry's
\* response, with no further auth call or request.
C4_SingleRetry ==
    /\ \A p \in Procs : nreq[p] <= 2
    /\ \A p \in Procs : pc[p] = "req2" => (nreq[p] = 2 /\ via[p] # "none")
    /\ (obs.type = "retry" /\ obs.op = "execute") =>
          /\ pc[obs.who] = "idle"
          /\ (obs.status # None /\ obs.status \notin SuccessStatuses) =>
                result[obs.who] = AgiloftAPIError(obs.status, 2)

C4_Witness ==
    /\ obs.type = "retry"
    /\ obs.status = 401
    /\ obs.op = "execute"
    /\ result[obs.who] = AgiloftAPIError(401, 2)

\* C5: a refresh token replaced by a rotating refresh is neither held nor
\* sent in any later refresh request.
C5_RotatedTokenNeverReused ==
    /\ refresh_token \notin revoked
    /\ \A p \in Procs : pc[p] \in RefreshPcs => sent_refresh[p] \notin revoked

C5_Witness ==
    /\ revoked # {}
    /\ \E p \in Procs : pc[p] \in RefreshPcs /\ sent_refresh[p] # None

\* C6: legacy mode: after a 401, a successful refresh that grants A2 and no
\* refresh token makes the retry carry A2 and leaves the held refresh token
\* as it was; a refresh request carries the refresh token held when it is sent.
C6_RefreshWithoutRotation ==
    /\ (auth_method = "legacy" /\ obs.type = "refresh" /\ obs.went
            /\ obs.held /\ obs.rt = None) =>
          /\ pc[obs.who] = "req2"
          /\ headers_token[obs.who] = obs.at
          /\ refresh_token = obs.old_rt
    /\ (auth_method = "legacy" /\ obs.type \in {"ensure", "handler"}
            /\ pc[obs.who] \in RefreshPcs) =>
          sent_refresh[obs.who] = refresh_token

C6_Witness ==
    /\ auth_method = "legacy"
    /\ obs.type = "refresh" /\ obs.went /\ obs.held /\ obs.rt = None
    /\ obs.old_rt # None
    /\ refresh_token = obs.old_rt
    /\ headers_token[obs.who] = obs.at
    /\ obs.at # token_before_request[obs.who]

\* C7: client-credentials mode with no refresh token held: the 401 handler
\* of a request whose token is still the live one goes straight to the
\* client_credentials grant, and no refresh request is sent.
C7_ClientCredentialsReauth ==
    /\ (auth_method = "oauth2_client_credentials" /\ obs.type = "handler"
            /\ obs.old_rt = None) =>
          /\ pc[obs.who] \notin RefreshPcs
          /\ obs.match =>
                /\ pc[obs.who] = "h_auth"
                /\ grant[obs.who] = "client_credentials"
                /\ gate_calls[obs.who] = 1
    /\ auth_method = "oauth2_client_credentials" =>
          \A p \in Procs : pc[p] \in RefreshPcs => sent_refresh[p] # None

C7_Witness ==
    /\ auth_method = "oauth2_client_credentials"
    /\ obs.type = "handler" /\ obs.old_rt = None /\ obs.match
    /\ pc[obs.who] = "h_auth"

\* C8: ensure_authenticated renews a held token that expires 59 seconds
\* from now and leaves one that expires 61 seconds from now.
C8_Expiry59And61 ==
    (obs.type = "ensure" /\ obs.held) =>
        /\ obs.rem = 59 => obs.acted
        /\ obs.rem = 61 => ~obs.acted

C8_Witness ==
    obs.type = "ensure" /\ obs.held /\ obs.rem = 59 /\ obs.acted

\* C9 as stated: ensure_authenticated renews a held token if and only if
\* less than 60 seconds of validity remain.
C9_RenewIffLessThanMargin ==
    (obs.type = "ensure" /\ obs.held) => (obs.acted <=> obs.rem < SafetyMargin)

\* C9 amended: ensure_authenticated renews a held token if and only if at
\* most 60 seconds of validity remain.
C9_RenewIffAtMostMargin ==
    (obs.type = "ensure" /\ obs.held) => (obs.acted <=> obs.rem <= SafetyMargin)

C9_Witness ==
    obs.type = "ensure" /\ obs.held /\ obs.rem = SafetyMargin /\ obs.acted

\* C10: when the callback the flow acts on carries a state different from
\* the generated one, no token exchange is started, and a callback with a
\* code ends the flow with the state-mismatch error.
C10_StateMismatchFails ==
    /\ (obs.type = "verify" /\ ~obs.match) => ~obs.acted
    /\ (obs.type = "verify" /\ obs.held /\ ~obs.match) =>
          /\ pc[obs.who] = "idle"
          /\ result[obs.who] = AgiloftAuthError("state_mismatch")

C10_Witness ==
    /\ obs.type = "verify" /\ obs.held /\ ~obs.match
    /\ result[obs.who] = AgiloftAuthError("state_mismatch")

\* C11: the wait for a callback ends, and when it ends with no code received
\* authenticate_with_browser fails with the timeout error and the listener
\* is no longer bound.
C11_TimeoutFailsAndUnbinds ==
    /\ [](obs.type = "verify" /\ ~obs.held =>
            /\ pc[obs.who] = "idle"
            /\ result[obs.who] = AgiloftAuthError("timeout")
            /\ listener = None)
    /\ \A p \in Procs : (pc[p] = "b_wait") ~> (pc[p] # "b_wait")

C11_Witness ==
    /\ obs.type = "verify" /\ ~obs.held
    /\ result[obs.who] = AgiloftAuthError("timeout")
    /\ listener = None

\* C12: a task that is not inside authenticate_with_browser holds no bound
\* listener: the listener is torn down on every exit path.
C12_ListenerTornDownOnEveryExit ==
    \A p \in Procs : listener = p => pc[p] \in {"b_wait", "b_cleanup"}

\* C13: the first callback ends the flow with its outcome: the callback
\* server serves no second request, and a flow that received a callback does
\* not run on to the timeout.
C13_FirstCallbackEndsFlow ==
    /\ obs.type = "callback" => ~obs.held
    /\ (obs.type = "verify" /\ obs.went) => result[obs.who] # AgiloftAuthError("timeout")

\* C14: in authorization-code mode, a run of ensure_authenticated that finds
\* neither an access token nor a refresh token ends with the authentication
\* error that asks for the interactive flow; it binds no listener, starts
\* no wait for a callback and puts no network call in flight (inside
\* logout the error is swallowed by logout).
C14_NoAutomaticInteractiveFlow ==
    [][(/\ auth_method = "oauth2_authorization_code"
        /\ access_token = None
        /\ refresh_token = None
        /\ obs'.type = "ensure")
       => /\ pc'[obs'.who] = "idle"
          /\ obs'.op = "execute" =>
                /\ result'[obs'.who] = AgiloftAuthError("interactive_required")
                /\ UNCHANGED tokvars
          /\ UNCHANGED <<issued, browservars>>
          /\ \A q \in Procs : pc'[q] \in AuthFlightPcs => pc'[q] = pc[q]]_vars

C14_Witness ==
    /\ auth_method = "oauth2_authorization_code"
    /\ obs.type = "ensure"
    /\ obs.op = "execute"
    /\ access_token = None
    /\ refresh_token = None
    /\ result[obs.who] = AgiloftAuthError("interactive_required")

\* C15: when logout has returned, neither an access token nor a refresh
\* token is held.
C15_LogoutClearsTokens ==
    (obs.op = "logout" /\ pc[obs.who] = "idle") =>
        (access_token = None /\ refresh_token = None)

\* C16: a failed authenticate or refresh call that ends an Execute ends it
\* with AuthError, and an Execute ends only with its response, ApiError or
\* AuthError.
C16_AuthFailuresAreAuthErrors ==
    (obs.op = "execute" /\ pc[obs.who] = "idle") =>
        /\ result[obs.who].kind \in {"ok", "ApiError", "AuthError"}
        /\ (obs.type \in {"auth", "refresh"} /\ ~obs.held) =>
              result[obs.who].kind = "AuthError"

\* C17: when a refresh has failed and the full authentication that follows
\* fails too, or cannot be made, no access token is held afterwards.
C17_FailedFallbackLeavesNoToken ==
    /\ (obs.type = "auth" /\ ~obs.held /\ obs.acted) => access_token = None
    /\ (obs.type = "refresh" /\ ~obs.held /\ pc[obs.who] = "idle") =>
          access_token = None

\* C18: the retried request carries the caller-supplied headers of the call.
C18_RetryKeepsCallerHeaders ==
    \A p \in Procs : pc[p] = "req2" => sent_headers[p] = caller_headers[p]

\* C20: with auth_method 'oauth2' the authentication request of
\* ensure_authenticated is a client_credentials grant.
C20_OAuth2MeansClientCredentials ==
    auth_method = "oauth2" =>
        \A p \in Procs : pc[p] = "ea_auth" => grant[p] = "client_credentials"

C21_StrMasksSecrets ==
    rendered.called =>
        /\ rendered.password # None => ~Contains(rendered.text, rendered.password)
        /\ rendered.client_secret # None => ~Contains(rendered.text, rendered.client_secret)

\* C22: a refresh token on which a refresh failed is no longer held when the
\* fallback authentication starts, and it is neither held nor sent in a
\* refresh request at any later time, in ensure_authenticated and in the
\* 401 handler alike.
C22_FailedRefreshTokenDiscarded ==
    /\ (obs.type = "refresh" /\ ~obs.held) =>
          /\ refresh_token = None
          /\ pc[obs.who] \notin RefreshPcs
    /\ refresh_token \notin failed
    /\ \A p \in Procs : pc[p] \in RefreshPcs => sent_refresh[p] \notin failed

C22_Witness ==
    /\ failed # {}
    /\ \E p \in Procs : pc[p] = "h_refresh" /\ sent_refresh[p] # None
    /\ \E p \in Procs : pc[p] = "ea_wait"

\* C23: one run of ensure_authenticated or of the 401 handler makes at most
\* one refresh call and, after it failed or in its place, at most one full
\* authentication call: a refresh in flight is the first call of its run, an
\* answered refresh is not followed by another refresh, and an answered
\* full authentication is followed by no further call.
C23_FallbackChainOnce ==
    /\ \A p \in Procs : pc[p] \in RefreshPcs => gate_calls[p] = 1
    /\ \A p \in Procs : pc[p] \in AuthPcs => gate_calls[p] \in {1, 2}
    /\ obs.type = "refresh" => pc[obs.who] \notin RefreshPcs
    /\ obs.type = "auth" => pc[obs.who] \notin AuthFlightPcs

C23_Witness ==
    /\ obs.type = "auth" /\ obs.acted /\ ~obs.held /\ obs.went
    /\ pc[obs.who] = "idle"

\* C24: every write to the token state (access token, refresh token,
\* expiry, endpoint override) is made by a task that holds the
\* authentication lock.
C24_TokenWritesUnderLock ==
    [][(\/ access_token' # access_token
        \/ refresh_token' # refresh_token
        \/ api_access_point' # api_access_point
        \/ (token_expires_at' # token_expires_at /\ obs'.who # None))
       => (obs'.who # None /\ auth_lock = obs'.who)]_vars

\* C25: in every state another coroutine can observe, an access token is
\* held only together with an expiry timestamp.
C25_AccessTokenHasExpiry ==
    access_token # None => token_expires_at # None

\* C26: the held access token, expiry and endpoint override are those of the
\* most recently completed successful authenticate, refresh or token
\* exchange, or absent after logout: they change only in the step that
\* completes such a call with success, or that completes logout, and a
\* failed exchange changes none of them.
C26_TokenStateIsLastSuccess ==
    [][(\/ access_token' # access_token
        \/ api_access_point' # api_access_point
        \/ (token_expires_at' # token_expires_at /\ obs'.who # None))
       => \/ obs'.type \in {"auth", "refresh", "exchange"} /\ obs'.held
          \/ obs'.op = "logout" /\ pc'[obs'.who] = "idle"]_vars

LockWaitPcs == {"ea_wait", "h_wait"}

\* C27: the authentication lock is held only by a task whose refresh or
\* authentication call is in flight inside ensure_authenticated or the 401
\* handler: every exit has released it, and its holder never waits for it;
\* when every refresh, login and grant request is answered, every task
\* waiting for the lock eventually acquires it.
C27_LockReleasedAndAcquired ==
    /\ [](\A p \in Procs : auth_lock = p => pc[p] \in RefreshPcs \cup AuthPcs)
    /\ (\A p \in Procs : []<>(pc[p] \notin RefreshPcs \cup AuthPcs))
          => (\A p \in Procs : (pc[p] \in LockWaitPcs) ~> (pc[p] \notin LockWaitPcs))

C27_Witness ==
    \E p \in Procs :
        /\ pc[p] = "h_wait"
        /\ auth_lock \in Procs \ {p}
        /\ pc[auth_lock] = "ea_refresh"

\* C28: a refresh is posted to the configured token endpoint if there is
\* one, else to the endpoint under the access point learned during code
\* exchange, else to the endpoint derived from the base API URL; and when a
\* token endpoint is configured, the token requests of all three grant
\* types are posted to it.
C28_TokenEndpointSelection ==
    /\ posted.grant = "refresh_token" =>
          posted.url = IF oauth2_token_endpoint # None
                       THEN ConfiguredUrl(oauth2_token_endpoint)
                       ELSE IF posted.learned # None
                       THEN AccessPointUrl(posted.learned)
                       ELSE BaseUrl
    /\ (oauth2_token_endpoint # None /\ posted.grant # "none") =>
          posted.url = ConfiguredUrl(oauth2_token_endpoint)

\* C29: whatever the other tasks do meanwhile, the snapshot a task holds
\* while its first request is in flight, and while it waits for the lock
\* after the 401, is the bearer token of that request; and the 401 handler
\* finds the live token unchanged exactly when it equals that bearer token.
C29_SnapshotIsBearerOfRequest ==
    /\ [](\A p \in Procs : pc[p] \in {"req1", "h_wait"} =>
              token_before_request[p] = headers_token[p])
    /\ [][obs'.type = "handler" =>
              (obs'.match <=> access_token = headers_token[obs'.who])]_vars

C29_Witness ==
    \E p \in Procs :
        /\ pc[p] = "h_wait"
        /\ access_token # headers_token[p]
        /\ access_token # None
        /\ token_before_request[p] = headers_token[p]

\* C30: whatever callbacks the listener has served, and in whatever order,
\* the code posted in the token exchange is the code of a callback request
\* that carried the generated state.
C30_CodeAndStateFromSameCallback ==
    \A p \in Procs : pc[p] = "b_exchange" =>
        \E n \in Generated : sent_code[p] = CodeOf(n)

C30_Witness ==
    \E p \in Procs :
        /\ pc[p] = "b_exchange"
        /\ sent_code[p] = CodeOf(1)
        /\ api_access_point = 1

\* C31: the 401 handler finds the live token different from its snapshot
\* only after another caller's successful refresh or authentication has put
\* a new access token in place, so a handler that takes the branch without
\* a network call has an access token for the retry.
C31_SkipBranchHasToken ==
    (obs.type = "handler" /\ ~obs.match) => obs.held

\* C32: when logout has cleared the token state and returned, a step that
\* starts no operation leaves the state empty: no access token, no refresh
\* token and no expiry appear through a refresh or an authentication that
\* was in flight when logout cleared the state.
C32_LogoutStateStaysEmpty ==
    [][(/\ obs.op = "logout" /\ obs.type # "logout" /\ pc[obs.who] = "idle"
        /\ access_token = None /\ refresh_token = None /\ token_expires_at = None
        /\ ops' = ops)
       => (/\ access_token' = None
           /\ refresh_token' = None
           /\ token_expires_at' = None)]_vars

\* C33: str(config) leaves the stored configuration as it was: after it,
\* get('agiloft.password') and get of every other path return what they
\* returned before.
C33_StrLeavesConfigUnchanged ==
    [][Str =>
        \A path \in {<<"agiloft", "password">>, <<"agiloft", "oauth2", "client_secret">>} :
            Get(config_data', "data", path, None) = Get(config_data, "data", path, None)]_vars

====
